---- MODULE Spec2Model ----
(***************************************************************************)
(* Model of the multi-agent assistant of src/streamlit.py: the class       *)
(* MultiAgentSystem (chat-completion call, web-search agent, market-data   *)
(* lookup with fallback table and 5-minute memoization, finance agent,     *)
(* query router).                                                          *)
(*                                                                         *)
(* Text is a sequence of chunks.  Ticker symbols and queries are sequences *)
(* of one-character strings, so that upper()/lower() and the substring     *)
(* test are computed character by character; fixed literals of the source  *)
(* are single chunks.  A field of a stock-data record is Num(n) or         *)
(* Txt(text).  Prices are in cents, percentages in hundredths of a percent.*)
(***************************************************************************)
EXTENDS Integers, Sequences, FiniteSets, TLC

VARIABLES groq_api_key, cache, now, last, chat_history, displayed

vars == <<groq_api_key, cache, now, last, chat_history, displayed>>

(* ------------------------------ bounds --------------------------------- *)
MaxTicks == 2
TickSeconds == 200
MaxPoints == 2
MaxHistory == 2
MaxLongHistory == 6

(* ------------------------- program constants --------------------------- *)
TTL == 300
ShownLast == 5

(* ------------------------------ text ----------------------------------- *)
UpperChars == <<"A","B","C","D","E","F","G","H","I","J","K","L","M",
                "N","O","P","Q","R","S","T","U","V","W","X","Y","Z">>
LowerChars == <<"a","b","c","d","e","f","g","h","i","j","k","l","m",
                "n","o","p","q","r","s","t","u","v","w","x","y","z">>

ToUpper == [c \in {LowerChars[i] : i \in 1..26} |->
                UpperChars[CHOOSE i \in 1..26 : LowerChars[i] = c]]
ToLower == [c \in {UpperChars[i] : i \in 1..26} |->
                LowerChars[CHOOSE i \in 1..26 : UpperChars[i] = c]]

UpperChar(c) == IF c \in DOMAIN ToUpper THEN ToUpper[c] ELSE c
LowerChar(c) == IF c \in DOMAIN ToLower THEN ToLower[c] ELSE c

Upper(s) == [i \in 1..Len(s) |-> UpperChar(s[i])]
Lower(s) == [i \in 1..Len(s) |-> LowerChar(s[i])]

Contains(s, k) ==
    \E i \in 0..(Len(s) - Len(k)) : SubSeq(s, i + 1, i + Len(k)) = k

StartsWith(s, k) == Len(s) >= Len(k) /\ SubSeq(s, 1, Len(k)) = k

(* the single element of a one-element set: {e : x \in {v}} evaluates v once *)
Only(S) == CHOOSE x \in S : TRUE

Num(n) == [t |-> "num", n |-> n, s |-> <<>>]
Txt(s) == [t |-> "str", n |-> 0, s |-> s]

NA == Txt(<<"N/A">>)
APILimited == Txt(<<"API Limited">>)

(* Python truthiness of an optional string argument: None and "" are falsy *)
NoneSym == <<"<None>">>
EmptyStr == <<>>
Truthy(s) == s # NoneSym /\ Len(s) > 0

(* ------------------------------ inputs --------------------------------- *)
NVDA == <<"N","V","D","A">>
nvda == <<"n","v","d","a">>
ZZ == <<"Z","Z">>
Tsla == <<"T","s","l","a">>
zz == <<"z","z">>

CacheSymbols == {NVDA, nvda}
CaseSymbols == {NVDA, nvda, ZZ, zz}
FallbackSymbols == {NVDA, nvda, ZZ, Tsla, <<"z","z">>}

AgentSymbols == {NoneSym, EmptyStr, nvda, ZZ}

Queries == {<<"H","i">>,
            <<"S","t","o","c","k">>,
            <<"U","P","M","A","R","K","E","T">>}

(* Close columns of 0..MaxPoints points, alternating between two prices *)
LowPrice == 100
HighPrice == 150
Closes ==
    {[i \in 1..n |-> IF i % 2 = 0 THEN LowPrice ELSE HighPrice] : n \in 0..MaxPoints}

(* outcome of stock.history(period="5d"): an exception, or the Close column *)
HistRaise == [raises |-> TRUE, closes |-> <<>>, msg |-> "Too Many Requests. Rate limited."]
HistOutcomes ==
    {HistRaise} \cup
    {[raises |-> FALSE, closes |-> c, msg |-> ""] : c \in Closes}

(* outcome of stock.info: an exception, or a dictionary *)
InfoKeys == {"marketCap", "trailingPE", "dividendYield", "fiftyTwoWeekHigh",
             "fiftyTwoWeekLow", "longName", "sector", "industry", "volume"}
EmptyInfo == [k \in {} |-> NA]
FullInfo ==
    [k \in InfoKeys |->
        CASE k = "marketCap" -> Num(3000000)
          [] k = "trailingPE" -> Num(65)
          [] k = "dividendYield" -> Num(1)
          [] k = "fiftyTwoWeekHigh" -> Num(200)
          [] k = "fiftyTwoWeekLow" -> Num(80)
          [] k = "longName" -> Txt(<<"Live Company Name">>)
          [] k = "sector" -> Txt(<<"Live Sector">>)
          [] k = "industry" -> Txt(<<"Semiconductors">>)
          [] OTHER -> Num(40000)]
InfoOutcomes ==
    {[raises |-> TRUE, dict |-> EmptyInfo],
     [raises |-> FALSE, dict |-> EmptyInfo],
     [raises |-> FALSE, dict |-> FullInfo]}

InfoGet(info, k, default) == IF k \in DOMAIN info THEN info[k] ELSE default

NoText == <<>>

(* ------------------------------ events --------------------------------- *)
(* One entry per call made during an operation, in program order.          *)
(* out is the outcome of an external call, n the number of history points. *)
Event(e, sym, msgs, out, n) == [e |-> e, sym |-> sym, msgs |-> msgs, out |-> out, n |-> n]

Count(log, e) == Len(SelectSeq(log, LAMBDA x : x.e = e))

(* --------------------------- market data ------------------------------- *)
fallback_data ==
    [k \in {<<"A","A","P","L">>, <<"G","O","O","G","L">>, <<"M","S","F","T">>,
            <<"N","V","D","A">>, <<"T","S","L","A">>, <<"A","M","Z","N">>} |->
        CASE k = <<"A","A","P","L">> ->
                [name |-> <<"Apple Inc.">>, sector |-> <<"Technology">>, approx_price |-> 175]
          [] k = <<"G","O","O","G","L">> ->
                [name |-> <<"Alphabet Inc.">>, sector |-> <<"Technology">>, approx_price |-> 140]
          [] k = <<"M","S","F","T">> ->
                [name |-> <<"Microsoft Corporation">>, sector |-> <<"Technology">>, approx_price |-> 420]
          [] k = <<"N","V","D","A">> ->
                [name |-> <<"NVIDIA Corporation">>, sector |-> <<"Technology">>, approx_price |-> 900]
          [] k = <<"T","S","L","A">> ->
                [name |-> <<"Tesla, Inc.">>, sector |-> <<"Automotive">>, approx_price |-> 250]
          [] OTHER ->
                [name |-> <<"Amazon.com Inc.">>, sector |-> <<"E-commerce">>, approx_price |-> 155]]

(* fallback_data.get(symbol.upper(), placeholder), with the key compared exactly *)
fallback_base_data_exact_key(symbol) ==
    IF symbol \in DOMAIN fallback_data
    THEN fallback_data[symbol]
    ELSE [name |-> symbol \o <<" Corporation">>,
          sector |-> <<"Unknown">>,
          approx_price |-> 100]

fallback_base_data(symbol) ==
    IF Upper(symbol) \in DOMAIN fallback_data
    THEN fallback_data[Upper(symbol)]
    ELSE [name |-> symbol \o <<" Corporation">>,
          sector |-> <<"Unknown">>,
          approx_price |-> 100]

(* the fallback record with the market cap reported as plain "N/A" *)
get_fallback_stock_data_no_marker(symbol, error_msg) ==
    LET base_data == fallback_base_data(symbol)
    IN  [raised |-> FALSE,
         rec |-> <<[symbol |-> Txt(symbol),
                    current_price |-> APILimited,
                    previous_close |-> APILimited,
                    price_change |-> NA,
                    price_change_percent |-> NA,
                    market_cap |-> NA,
                    pe_ratio |-> NA,
                    dividend_yield |-> NA,
                    week52_high |-> NA,
                    week52_low |-> NA,
                    company_name |-> Txt(base_data.name),
                    sector |-> Txt(base_data.sector),
                    industry |-> NA,
                    volume |-> NA,
                    data_source |-> Txt(<<"Fallback Data">>),
                    error_msg |-> Txt(<<"API Error: ", error_msg>>),
                    note |-> Txt(<<"Using AI analysis instead of real-time data due to API limitations">>)]>>]

(* the lookup failure reported as a record holding only the key "error" *)
get_fallback_stock_data_error_key(symbol, error_msg) ==
    [raised |-> FALSE, rec |-> <<[error |-> Txt(<<error_msg>>)]>>]

get_fallback_stock_data(symbol, error_msg) ==
    LET base_data == fallback_base_data(symbol)
    IN  [raised |-> FALSE,
         rec |-> <<[symbol |-> Txt(symbol),
                    current_price |-> APILimited,
                    previous_close |-> APILimited,
                    price_change |-> NA,
                    price_change_percent |-> NA,
                    market_cap |-> APILimited,
                    pe_ratio |-> NA,
                    dividend_yield |-> NA,
                    week52_high |-> NA,
                    week52_low |-> NA,
                    company_name |-> Txt(base_data.name),
                    sector |-> Txt(base_data.sector),
                    industry |-> NA,
                    volume |-> NA,
                    data_source |-> Txt(<<"Fallback Data">>),
                    error_msg |-> Txt(<<"API Error: ", error_msg>>),
                    note |-> Txt(<<"Using AI analysis instead of real-time data due to API limitations">>)]>>]

(* round(a / b) for b > 0 *)
RoundDiv(a, b) == (2 * a + b) \div (2 * b)

NoException == ""

(* the try block aborting also when stock.info raises *)
lookup_exception_info_fatal(hist, info_out) ==
    IF hist.raises THEN hist.msg
    ELSE IF hist.closes = <<>> THEN "No historical data available"
    ELSE IF info_out.raises THEN "info unavailable"
    ELSE NoException

(* the try block indexing iloc[-2] without the length test *)
lookup_exception_unguarded(hist, info_out) ==
    IF hist.raises THEN hist.msg
    ELSE IF hist.closes = <<>> THEN "No historical data available"
    ELSE IF Len(hist.closes) < 2 THEN "single positional indexer is out-of-bounds"
    ELSE NoException

(* The exception, if any, that leaves the try block of get_stock_data:     *)
(* one raised by Ticker/history, or the explicit one for an empty history. *)
(* A failure of stock.info is caught by the inner handler.                 *)
lookup_exception(hist, info_out) ==
    IF hist.raises THEN hist.msg
    ELSE IF hist.closes = <<>> THEN "No historical data available"
    ELSE NoException

(* the provider calls the try block makes, in order *)
lookup_log(symbol, hist, info_out) ==
    IF hist.raises THEN <<Event("history", symbol, <<>>, "raises", 0)>>
    ELSE IF hist.closes = <<>> THEN <<Event("history", symbol, <<>>, "empty", 0)>>
    ELSE <<Event("history", symbol, <<>>, "ok", Len(hist.closes)),
           Event("info", symbol, <<>>, IF info_out.raises THEN "raises" ELSE "ok", 0)>>

(* The body of get_stock_data, as run on a cache miss. *)
get_stock_data_body(symbol, hist, info_out) ==
    IF lookup_exception(hist, info_out) # NoException
    THEN Only({[raised |-> fb.raised, rec |-> fb.rec, log |-> lookup_log(symbol, hist, info_out)] :
                  fb \in {get_fallback_stock_data(symbol, lookup_exception(hist, info_out))}})
    ELSE LET n == Len(hist.closes)
             current_price == hist.closes[n]
             previous_close == IF n > 1 THEN hist.closes[n - 1] ELSE current_price
             info == IF info_out.raises THEN EmptyInfo ELSE info_out.dict
         IN  [raised |-> FALSE,
              rec |-> <<[symbol |-> Txt(symbol),
                         current_price |-> Num(current_price),
                         previous_close |-> Num(previous_close),
                         price_change |-> Num(current_price - previous_close),
                         price_change_percent |->
                             Num(RoundDiv((current_price - previous_close) * 10000, previous_close)),
                         market_cap |-> InfoGet(info, "marketCap", NA),
                         pe_ratio |-> InfoGet(info, "trailingPE", NA),
                         dividend_yield |-> InfoGet(info, "dividendYield", NA),
                         week52_high |-> InfoGet(info, "fiftyTwoWeekHigh", NA),
                         week52_low |-> InfoGet(info, "fiftyTwoWeekLow", NA),
                         company_name |-> InfoGet(info, "longName", Txt(symbol)),
                         sector |-> InfoGet(info, "sector", NA),
                         industry |-> InfoGet(info, "industry", NA),
                         volume |-> InfoGet(info, "volume", NA),
                         data_source |-> Txt(<<"Yahoo Finance (Limited)">>)]>>,
              log |-> lookup_log(symbol, hist, info_out)]

(* st.cache_data without a ttl: an entry is served for ever *)
Fresh_never_expires(c, t, symbol) == symbol \in DOMAIN c

(* st.cache_data(ttl=300): an entry is served while younger than the ttl.  *)
Fresh(c, t, symbol) == symbol \in DOMAIN c /\ t - c[symbol].stored < TTL

(* what the decorator finds for the key: a fresh entry, none, or a stale one *)
CacheOutcome(c, t, symbol) ==
    IF Fresh(c, t, symbol) THEN "hit"
    ELSE IF symbol \in DOMAIN c THEN "expired" ELSE "miss"

CacheStore(c, t, symbol, value) ==
    [k \in (DOMAIN c) \cup {symbol} |->
        IF k = symbol THEN [value |-> value, stored |-> t] ELSE c[k]]

(* get_stock_data without memoization: the body runs on every call *)
get_stock_data_uncached(c, t, symbol, hist, info_out) ==
    Only({[raised |-> r.raised, rec |-> r.rec, cache |-> c,
           log |-> <<Event("get_stock_data", symbol, <<>>, "miss", 0)>> \o r.log] :
             r \in {get_stock_data_body(symbol, hist, info_out)}})

(* get_stock_data memoizing live records only *)
get_stock_data_live_only(c, t, symbol, hist, info_out) ==
    IF Fresh(c, t, symbol)
    THEN [raised |-> FALSE, rec |-> <<c[symbol].value>>, cache |-> c,
          log |-> <<Event("get_stock_data", symbol, <<>>, CacheOutcome(c, t, symbol), 0)>>]
    ELSE Only({[raised |-> r.raised, rec |-> r.rec,
                cache |-> IF r.raised \/ r.rec[1].data_source = Txt(<<"Fallback Data">>)
                          THEN c ELSE CacheStore(c, t, symbol, r.rec[1]),
                log |-> <<Event("get_stock_data", symbol, <<>>, CacheOutcome(c, t, symbol), 0)>> \o r.log] :
                  r \in {get_stock_data_body(symbol, hist, info_out)}})

(* get_stock_data with the cache entry keyed by the upper-cased symbol *)
get_stock_data_upper_key(c, t, symbol, hist, info_out) ==
    IF Fresh(c, t, Upper(symbol))
    THEN [raised |-> FALSE, rec |-> <<c[Upper(symbol)].value>>, cache |-> c,
          log |-> <<Event("get_stock_data", symbol, <<>>, "hit", 0)>>]
    ELSE Only({[raised |-> r.raised, rec |-> r.rec,
                cache |-> IF r.raised THEN c ELSE CacheStore(c, t, Upper(symbol), r.rec[1]),
                log |-> <<Event("get_stock_data", symbol, <<>>, "miss", 0)>> \o r.log] :
                  r \in {get_stock_data_body(symbol, hist, info_out)}})

(* get_stock_data behind its cache decorator: the entry is keyed by the    *)
(* symbol argument; whatever the body returns is stored.                   *)
get_stock_data(c, t, symbol, hist, info_out) ==
    IF Fresh(c, t, symbol)
    THEN [raised |-> FALSE, rec |-> <<c[symbol].value>>, cache |-> c,
          log |-> <<Event("get_stock_data", symbol, <<>>, CacheOutcome(c, t, symbol), 0)>>]
    ELSE Only({[raised |-> r.raised, rec |-> r.rec,
                cache |-> IF r.raised THEN c ELSE CacheStore(c, t, symbol, r.rec[1]),
                log |-> <<Event("get_stock_data", symbol, <<>>, CacheOutcome(c, t, symbol), 0)>> \o r.log] :
                  r \in {get_stock_data_body(symbol, hist, info_out)}})


(* --------------------------- chat completion --------------------------- *)
(* outcome of the POST: requests.post may raise; otherwise the response    *)
(* has a status and a body that parses, or not, into choices[0].message    *)
GroqOutcome(post_raises, status, body) ==
    [post_raises |-> post_raises, status |-> status, body |-> body]

GroqOutcomes ==
    {GroqOutcome(FALSE, 200, "ok"),
     GroqOutcome(TRUE, 0, ""),
     GroqOutcome(FALSE, 429, "ok"),
     GroqOutcome(FALSE, 200, "notjson"),
     GroqOutcome(FALSE, 200, "nochoices")}

ModelText == <<"(text generated by the model)">>

KeyWarning == <<"Error: GROQ_API_KEY not found. Please add it to your .env file.">>
GroqErrorPrefix == <<"Error calling Groq API: ">>

Message(role, content) == [role |-> role, content |-> content]

(* what the try block of call_groq_api runs into *)
GroqFailure(g) ==
    IF g.post_raises THEN "post_raises"
    ELSE IF g.status >= 400 THEN "http_error"
    ELSE IF g.body = "notjson" THEN "bad_json"
    ELSE IF g.body = "nochoices" THEN "missing_key"
    ELSE "ok"

GroqErrorText(g) ==
    CASE GroqFailure(g) = "post_raises" -> <<"ConnectionError">>
      [] GroqFailure(g) = "http_error" -> <<ToString(g.status), " Client Error">>
      [] GroqFailure(g) = "bad_json" -> <<"Expecting value: line 1 column 1 (char 0)">>
      [] OTHER -> <<"'choices'">>

(* call_groq_api catching only the exceptions of the requests library *)
call_groq_api_narrow_except(key, messages, g) ==
    IF ~key
    THEN [raised |-> FALSE, ret |-> KeyWarning,
          log |-> <<Event("call_groq_api", NoText, messages, "", 0)>>]
    ELSE [raised |-> GroqFailure(g) = "missing_key",
          ret |-> IF GroqFailure(g) = "ok" THEN ModelText
                  ELSE IF GroqFailure(g) = "missing_key" THEN NoText
                  ELSE GroqErrorPrefix \o GroqErrorText(g),
          log |-> <<Event("call_groq_api", NoText, messages, "", 0),
                    Event("post", NoText, messages, GroqFailure(g), g.status)>>]

call_groq_api(key, messages, g) ==
    IF ~key
    THEN [raised |-> FALSE, ret |-> KeyWarning,
          log |-> <<Event("call_groq_api", NoText, messages, "", 0)>>]
    ELSE [raised |-> FALSE,
          ret |-> IF GroqFailure(g) = "ok" THEN ModelText
                  ELSE GroqErrorPrefix \o GroqErrorText(g),
          log |-> <<Event("call_groq_api", NoText, messages, "", 0),
                    Event("post", NoText, messages, GroqFailure(g), g.status)>>]

WebSystemPrompt == <<"You are a web search agent. Provide comprehensive information about the query as if you searched the web. Always include sources and current information. Format your response in markdown.">>

web_search_agent(key, query, g) ==
    LET messages ==
            <<Message("system", WebSystemPrompt),
              Message("user", <<"Search for information about: ">> \o query)>>
    IN  call_groq_api(key, messages, g)

(* ----------------------------- finance agent --------------------------- *)
Render(v) == IF v.t = "num" THEN <<ToString(v.n)>> ELSE v.s

FallbackStockInfo(stock_data, symbol) ==
    <<"**Stock Analysis for ">> \o Render(stock_data.company_name) \o <<" (">> \o symbol \o <<")**">>
    \o <<"**Note**: ">> \o Render(stock_data.note)
    \o <<"| Information | Value |">>
    \o <<"| Company | ">> \o Render(stock_data.company_name)
    \o <<"| Sector | ">> \o Render(stock_data.sector)
    \o <<"| Data Source | ">> \o Render(stock_data.data_source)
    \o <<"| API Status | Limited due to rate limiting |">>
    \o <<"**Error Details**: ">> \o Render(stock_data.error_msg)

LiveStockInfo(stock_data, symbol) ==
    LET price_change_indicator ==
            IF stock_data.price_change.n > 0 THEN "up"
            ELSE IF stock_data.price_change.n < 0 THEN "down" ELSE "flat"
    IN  <<"**Stock Information for ">> \o Render(stock_data.company_name) \o <<" (">> \o symbol \o <<")**">>
        \o <<"| Metric | Value |">>
        \o <<"| Current Price | $">> \o Render(stock_data.current_price)
        \o <<"| Previous Close | $">> \o Render(stock_data.previous_close)
        \o <<"| Price Change | ", price_change_indicator, " $">> \o Render(stock_data.price_change)
        \o <<" (">> \o Render(stock_data.price_change_percent) \o <<"%)">>
        \o <<"| Market Cap | ">> \o Render(stock_data.market_cap)
        \o <<"| P/E Ratio | ">> \o Render(stock_data.pe_ratio)
        \o <<"| Dividend Yield | ">> \o Render(stock_data.dividend_yield)
        \o <<"| 52 Week High | $">> \o Render(stock_data.week52_high)
        \o <<"| 52 Week Low | $">> \o Render(stock_data.week52_low)
        \o <<"| Sector | ">> \o Render(stock_data.sector)
        \o <<"| Industry | ">> \o Render(stock_data.industry)
        \o <<"| Volume | ">> \o Render(stock_data.volume)
        \o <<"| Data Source | ">> \o Render(stock_data.data_source)

FinanceMessages(stock_data, query, symbol) ==
    IF stock_data.data_source = Txt(<<"Fallback Data">>)
    THEN <<Message("system", <<"You are a financial analysis agent. The user is asking about a stock but real-time data is unavailable due to API limitations.">>),
           Message("user", <<"Analyze ">> \o symbol \o <<" (">> \o Render(stock_data.company_name)
                           \o <<") in the ">> \o Render(stock_data.sector) \o <<" sector. Query: ">> \o query
                           \o <<"\n\nNote: Real-time data unavailable due to API limits. Please provide analysis based on your knowledge.">>)>>
    ELSE <<Message("system", <<"You are a financial analysis agent. Analyze the provided stock data and provide insights, recommendations, and analysis.">>),
           Message("user", <<"Analyze this stock data and query: ">> \o query
                           \o <<"\n\nStock Data:\n">> \o LiveStockInfo(stock_data, symbol))>>

(* finance_agent once the record is there: the unreachable "error" exit,   *)
(* or the prompt built from the record and sent to call_groq_api           *)
finance_agent_with_data(key, sd, query, symbol, g) ==
    IF sd.raised
    THEN [raised |-> TRUE, ret |-> NoText, cache |-> sd.cache, log |-> sd.log]
    ELSE IF "error" \in DOMAIN sd.rec[1]
    THEN [raised |-> FALSE, ret |-> Render(sd.rec[1]["error"]),
          cache |-> sd.cache, log |-> sd.log]
    ELSE Only({[raised |-> call.raised, ret |-> call.ret,
                cache |-> sd.cache, log |-> sd.log \o call.log] :
                  call \in {call_groq_api(key, FinanceMessages(sd.rec[1], query, symbol), g)}})

finance_agent(key, c, t, query, symbol, hist, info_out, g) ==
    IF Truthy(symbol)
    THEN Only({finance_agent_with_data(key, sd, query, symbol, g) :
                  sd \in {get_stock_data(c, t, symbol, hist, info_out)}})
    ELSE Only({[raised |-> call.raised, ret |-> call.ret, cache |-> c, log |-> call.log] :
                  call \in {call_groq_api(key,
                      <<Message("system", <<"You are a financial analysis agent. Provide financial insights and analysis. Format your response in markdown with tables where appropriate.">>),
                        Message("user", query)>>, g)}})

(* ------------------------------- router -------------------------------- *)
finance_keywords ==
    {<<"s","t","o","c","k">>, <<"p","r","i","c","e">>,
     <<"f","i","n","a","n","c","i","a","l">>,
     <<"i","n","v","e","s","t","m","e","n","t">>,
     <<"m","a","r","k","e","t">>, <<"a","n","a","l","y","s","t">>,
     <<"r","e","c","o","m","m","e","n","d","a","t","i","o","n">>,
     <<"e","a","r","n","i","n","g","s">>}

(* the keyword test without lower-casing the query *)
is_finance_query_case_sensitive(query) ==
    \E keyword \in finance_keywords : Contains(query, keyword)

is_finance_query(query) ==
    LET lowered == Lower(query)
    IN  \E keyword \in finance_keywords : Contains(lowered, keyword)

FinanceHeader == <<"\n## Financial Analysis\n">>
NewsHeader == <<"\n\n## Latest News & Web Search\n">>
CombinedFooter == <<"\n\n---\n*Analysis combining real-time financial data and web search results*\n">>
WebHeader == <<"\n## Web Search Results\n">>
WebFooter == <<"\n\n---\n*Information gathered from web search*\n">>

NewsQuery(symbol) == <<"latest news and analysis for ">> \o symbol

(* the router searching for the original query in the finance branch *)
multi_agent_response_same_query(key, c, t, query, symbol, hist, info_out, g1, g2) ==
    IF is_finance_query(query) /\ Truthy(symbol)
    THEN Only({[raised |-> f.raised \/ w.raised,
                ret |-> FinanceHeader \o f.ret \o NewsHeader \o w.ret \o CombinedFooter,
                cache |-> f.cache, log |-> f.log \o w.log] :
                  f \in {finance_agent(key, c, t, query, symbol, hist, info_out, g1)},
                  w \in {web_search_agent(key, query, g2)}})
    ELSE Only({[raised |-> w.raised, ret |-> WebHeader \o w.ret \o WebFooter,
                cache |-> c, log |-> w.log] :
                  w \in {web_search_agent(key, query, g2)}})

(* the finance branch with the news search issued ahead of the finance call *)
combined_response_news_first(key, f, symbol, g2) ==
    IF f.raised
    THEN [raised |-> TRUE, ret |-> NoText, cache |-> f.cache, log |-> f.log]
    ELSE Only({[raised |-> w.raised,
                ret |-> FinanceHeader \o f.ret \o NewsHeader \o w.ret \o CombinedFooter,
                cache |-> f.cache, log |-> w.log \o f.log] :
                  w \in {web_search_agent(key, NewsQuery(symbol), g2)}})

(* the finance branch after finance_agent returned f: the news search and  *)
(* the combined document                                                   *)
combined_response(key, f, symbol, g2) ==
    IF f.raised
    THEN [raised |-> TRUE, ret |-> NoText, cache |-> f.cache, log |-> f.log]
    ELSE Only({IF w.raised
               THEN [raised |-> TRUE, ret |-> NoText, cache |-> f.cache,
                     log |-> f.log \o w.log]
               ELSE [raised |-> FALSE,
                     ret |-> FinanceHeader \o f.ret \o NewsHeader \o w.ret \o CombinedFooter,
                     cache |-> f.cache, log |-> f.log \o w.log] :
                  w \in {web_search_agent(key, NewsQuery(symbol), g2)}})

multi_agent_response(key, c, t, query, symbol, hist, info_out, g1, g2) ==
    IF is_finance_query(query) /\ Truthy(symbol)
    THEN Only({combined_response(key, f, symbol, g2) :
                  f \in {finance_agent(key, c, t, query, symbol, hist, info_out, g1)}})
    ELSE Only({IF w.raised
               THEN [raised |-> TRUE, ret |-> NoText, cache |-> c, log |-> w.log]
               ELSE [raised |-> FALSE, ret |-> WebHeader \o w.ret \o WebFooter,
                     cache |-> c, log |-> w.log] :
                  w \in {web_search_agent(key, query, g2)}})

(* -------------------------------- page --------------------------------- *)
AgentChoices == {"Multi-Agent System", "Web Search Agent", "Finance Agent"}

Pad2(n) == IF n < 10 THEN <<"0", ToString(n)>> ELSE <<ToString(n)>>

(* datetime.now().strftime("%H:%M:%S"), the clock counting from midnight *)
strftime(t) ==
    Pad2((t \div 3600) % 24) \o <<":">> \o Pad2((t \div 60) % 60) \o <<":">> \o Pad2(t % 60)

(* the conversation history block showing history[-5:] only *)
conversation_history_last_five(history) ==
    IF Len(history) > ShownLast
    THEN SubSeq(history, Len(history) - ShownLast + 1, Len(history))
    ELSE history

(* the conversation history block of the chat tab: one container per entry *)
conversation_history(history) == [i \in 1..Len(history) |-> history[i]]

(* display_chat_history of simple_streamlit.py: chat_history[-5:] *)
display_chat_history(history) ==
    IF Len(history) > ShownLast
    THEN SubSeq(history, Len(history) - ShownLast + 1, Len(history))
    ELSE history

NoCall(c) == [raised |-> FALSE, ret |-> NoText, cache |-> c, log |-> <<>>]

(* the response of the chat form, by the agent selected in the sidebar *)
chat_response(agent_choice, key, c, t, user_input, stock_symbol, hist, info_out, g1, g2) ==
    IF agent_choice = "Web Search Agent"
    THEN Only({[raised |-> w.raised, ret |-> w.ret, cache |-> c, log |-> w.log] :
                  w \in {web_search_agent(key, user_input, g1)}})
    ELSE IF agent_choice = "Finance Agent"
    THEN finance_agent(key, c, t, user_input,
                       IF Truthy(stock_symbol) THEN stock_symbol ELSE NoneSym,
                       hist, info_out, g1)
    ELSE multi_agent_response(key, c, t, user_input,
                              IF Truthy(stock_symbol) THEN stock_symbol ELSE NoneSym,
                              hist, info_out, g1, g2)

(* the chat form appending an entry for every submission, empty or not *)
history_after_submit_unguarded(history, user_input, r, timestamp, agent_choice) ==
    Append(history, <<user_input, r.ret, timestamp, agent_choice>>)

(* `if submit_button and user_input:` ... chat_history.append(...) *)
history_after_submit(history, user_input, r, timestamp, agent_choice) ==
    IF Truthy(user_input) /\ ~r.raised
    THEN Append(history, <<user_input, r.ret, timestamp, agent_choice>>)
    ELSE history

AnalysisTypes == {"Complete Analysis", "Current Price & Metrics",
                  "Financial Analysis", "Market Research"}

queries(stock_symbol) ==
    [a \in AnalysisTypes |->
        CASE a = "Complete Analysis" ->
                <<"Provide a comprehensive financial analysis for ">> \o stock_symbol
          [] a = "Current Price & Metrics" ->
                <<"Analyze the stock metrics and trends for ">> \o stock_symbol
          [] a = "Financial Analysis" ->
                <<"Provide detailed financial analysis for ">> \o stock_symbol
          [] OTHER ->
                <<"Research market sentiment and developments for ">> \o stock_symbol]

topics ==
    <<<<"latest artificial intelligence news">>,
      <<"latest technology trends 2024">>,
      <<"stock market news today">>,
      <<"cryptocurrency news today">>>>

popular_stocks ==
    {<<"N","V","D","A">>, <<"A","A","P","L">>, <<"G","O","O","G","L">>,
     <<"M","S","F","T">>, <<"T","S","L","A">>, <<"A","M","Z","N">>}

(* f"Analyze {stock} stock with current data and recent news" *)
QuickInsightQuery(stock) ==
    <<"A","n","a","l","y","z","e"," ">> \o stock
    \o <<" ","s","t","o","c","k"," ","w","i","t","h"," ">>
    \o <<"c","u","r","r","e","n","t"," ","d","a","t","a"," ">>
    \o <<"a","n","d"," ","r","e","c","e","n","t"," ","n","e","w","s">>

MarketOverviewQuery ==
    <<"Get current market overview including major indices performance and market sentiment">>

(* ------------------------------ state ---------------------------------- *)

Last(op, query, symbol, r) ==
    [op |-> op, query |-> query, symbol |-> symbol,
     raised |-> r.raised, ret |-> r.ret, rec |-> r.rec, log |-> r.log]

Init ==
    /\ groq_api_key \in BOOLEAN
    /\ cache = [k \in {} |-> 0]
    /\ now = 0
    /\ last = Last("init", NoText, NoText,
                   [raised |-> FALSE, ret |-> NoText, rec |-> <<>>, log |-> <<>>])
    /\ chat_history = <<>>
    /\ displayed = <<>>

(* a direct lookup, as the stock-analysis tab makes it *)
GetStockData(symbol, hist, info_out) ==
    \E r \in {get_stock_data(cache, now, symbol, hist, info_out)} :
        /\ cache' = r.cache
        /\ last' = Last("get_stock_data", NoText, symbol,
                        [raised |-> r.raised, ret |-> NoText, rec |-> r.rec, log |-> r.log])
        /\ UNCHANGED <<groq_api_key, now, chat_history, displayed>>

GetFallbackStockData(symbol, error_msg) ==
    \E r \in {get_fallback_stock_data(symbol, error_msg)} :
        /\ last' = Last("get_fallback_stock_data", NoText, symbol,
                        [raised |-> r.raised, ret |-> NoText, rec |-> r.rec, log |-> <<>>])
        /\ UNCHANGED <<groq_api_key, cache, now, chat_history, displayed>>

(* time passes between two operations *)
Tick ==
    /\ now + TickSeconds <= MaxTicks * TickSeconds
    /\ now' = now + TickSeconds
    /\ last' = Last("tick", NoText, NoText,
                    [raised |-> FALSE, ret |-> NoText, rec |-> <<>>, log |-> <<>>])
    /\ UNCHANGED <<groq_api_key, cache, chat_history, displayed>>

WebSearchAgent(query, g) ==
    \E r \in {web_search_agent(groq_api_key, query, g)} :
        /\ last' = Last("web_search_agent", query, NoText,
                        [raised |-> r.raised, ret |-> r.ret, rec |-> <<>>, log |-> r.log])
        /\ UNCHANGED <<groq_api_key, cache, now, chat_history, displayed>>

FinanceAgent(query, symbol, hist, info_out, g) ==
    \E r \in {finance_agent(groq_api_key, cache, now, query, symbol, hist, info_out, g)} :
        /\ cache' = r.cache
        /\ last' = Last("finance_agent", query, symbol,
                        [raised |-> r.raised, ret |-> r.ret, rec |-> <<>>, log |-> r.log])
        /\ UNCHANGED <<groq_api_key, now, chat_history, displayed>>

MultiAgentResponse(query, symbol, hist, info_out, g1, g2) ==
    \E r \in {multi_agent_response(groq_api_key, cache, now, query, symbol, hist, info_out, g1, g2)} :
        /\ cache' = r.cache
        /\ last' = Last("multi_agent_response", query, symbol,
                        [raised |-> r.raised, ret |-> r.ret, rec |-> <<>>, log |-> r.log])
        /\ UNCHANGED <<groq_api_key, now, chat_history, displayed>>

(* the provider outcomes the agent-level specification draws from *)
AgentHist == {h \in HistOutcomes : h.raises \/ Len(h.closes) = MaxPoints}
AgentInfo == {i \in InfoOutcomes : ~i.raises /\ i.dict = FullInfo}
RouterGroqOutcomes == {g \in GroqOutcomes : g.status = 200 /\ g.body \in {"ok", "nochoices"}}

Next ==
    \/ \E q \in Queries, g \in GroqOutcomes : WebSearchAgent(q, g)
    \/ \E q \in Queries, s \in AgentSymbols, h \in AgentHist, i \in AgentInfo,
          g \in RouterGroqOutcomes : FinanceAgent(q, s, h, i, g)
    \/ \E q \in Queries, s \in AgentSymbols, h \in AgentHist, i \in AgentInfo,
          g1 \in RouterGroqOutcomes, g2 \in RouterGroqOutcomes : MultiAgentResponse(q, s, h, i, g1, g2)
    \/ \E s \in AgentSymbols \ {NoneSym, EmptyStr}, h \in AgentHist, i \in AgentInfo :
            GetStockData(s, h, i)
    \/ Tick

Spec == Init /\ [][Next]_vars

NextCache ==
    \/ \E s \in CacheSymbols, h \in HistOutcomes, i \in InfoOutcomes : GetStockData(s, h, i)
    \/ \E s \in FallbackSymbols, m \in {"No historical data available", HistRaise.msg} :
            GetFallbackStockData(s, m)
    \/ Tick

SpecCache == Init /\ [][NextCache]_vars

(* lookups of symbols that differ only in letter case, in one cache window *)
NextCase ==
    \E s \in CaseSymbols, h \in AgentHist, i \in AgentInfo : GetStockData(s, h, i)

SpecCase == Init /\ [][NextCase]_vars

(* ------------------------------ handlers ------------------------------- *)
LastUI(op, agent, query, symbol, r) ==
    [op |-> op, agent |-> agent, query |-> query, symbol |-> symbol,
     raised |-> r.raised, ret |-> r.ret, rec |-> r.rec, log |-> r.log]

Nothing == [raised |-> FALSE, ret |-> NoText, rec |-> <<>>, log |-> <<>>]

(* the chat form: the agent answers a non-empty query, the entry is        *)
(* appended, and the rerun renders the history again                       *)
ChatSubmit(agent_choice, user_input, stock_symbol, hist, info_out, g1, g2) ==
    \E r \in {IF Truthy(user_input)
              THEN chat_response(agent_choice, groq_api_key, cache, now, user_input,
                                 stock_symbol, hist, info_out, g1, g2)
              ELSE NoCall(cache)} :
        /\ cache' = r.cache
        /\ chat_history' = history_after_submit(chat_history, user_input, r,
                                                strftime(now), agent_choice)
        /\ displayed' = conversation_history(chat_history')
        /\ last' = LastUI("chat_submit", agent_choice, user_input, stock_symbol,
                          [raised |-> r.raised, ret |-> r.ret, rec |-> <<>>,
                           log |-> IF chat_history' # chat_history
                                   THEN r.log \o <<Event("chat_history.append", NoText, <<>>, "", 0)>>
                                   ELSE r.log])
        /\ UNCHANGED <<groq_api_key, now>>

ClearChatHistory ==
    /\ chat_history' = <<>>
    /\ displayed' = conversation_history(chat_history')
    /\ last' = LastUI("clear_chat_history", "", NoText, NoText, Nothing)
    /\ UNCHANGED <<groq_api_key, cache, now>>

(* the stock-analysis tab: the tab looks the symbol up and shows the       *)
(* record, then finance_agent looks it up again for the prompt; the clock  *)
(* may have advanced by elapsed seconds between the two lookups. rec holds *)
(* the record shown and the record finance_agent worked from.              *)
AnalyzeStock(stock_symbol, analysis_type, hist, info_out, elapsed, hist2, info_out2, g) ==
    IF Truthy(stock_symbol)
    THEN /\ now + elapsed <= MaxTicks * TickSeconds
         /\ \E stock_data \in {get_stock_data(cache, now, stock_symbol, hist, info_out)} :
            \E analysis \in {finance_agent(groq_api_key, stock_data.cache, now + elapsed,
                                           queries(stock_symbol)[analysis_type],
                                           stock_symbol, hist2, info_out2, g)} :
            \E second \in {get_stock_data(stock_data.cache, now + elapsed, stock_symbol,
                                          hist2, info_out2)} :
                /\ cache' = analysis.cache
                /\ now' = now + elapsed
                /\ last' = LastUI("analyze_stock", "", queries(stock_symbol)[analysis_type],
                                  stock_symbol,
                                  [raised |-> stock_data.raised \/ analysis.raised,
                                   ret |-> analysis.ret,
                                   rec |-> stock_data.rec \o second.rec,
                                   log |-> stock_data.log \o analysis.log])
                /\ displayed' = conversation_history(chat_history)
                /\ UNCHANGED <<groq_api_key, chat_history>>
    ELSE /\ last' = LastUI("analyze_stock", "", NoText, stock_symbol, Nothing)
         /\ displayed' = conversation_history(chat_history)
         /\ UNCHANGED <<groq_api_key, cache, now, chat_history>>

SearchWeb(search_query, g) ==
    \E r \in {IF Truthy(search_query)
              THEN web_search_agent(groq_api_key, search_query, g)
              ELSE [raised |-> FALSE, ret |-> NoText, log |-> <<>>]} :
        /\ last' = LastUI("search_web", "", search_query, NoText,
                          [raised |-> r.raised, ret |-> r.ret, rec |-> <<>>, log |-> r.log])
        /\ displayed' = conversation_history(chat_history)
        /\ UNCHANGED <<groq_api_key, cache, now, chat_history>>

TrendingTopic(i, g) ==
    \E r \in {web_search_agent(groq_api_key, topics[i], g)} :
        /\ last' = LastUI("trending_topic", "", topics[i], NoText,
                          [raised |-> r.raised, ret |-> r.ret, rec |-> <<>>, log |-> r.log])
        /\ displayed' = conversation_history(chat_history)
        /\ UNCHANGED <<groq_api_key, cache, now, chat_history>>

QuickInsight(stock, hist, info_out, g1, g2) ==
    \E r \in {multi_agent_response(groq_api_key, cache, now, QuickInsightQuery(stock),
                                   stock, hist, info_out, g1, g2)} :
        /\ cache' = r.cache
        /\ last' = LastUI("quick_insight", "", QuickInsightQuery(stock), stock,
                          [raised |-> r.raised, ret |-> r.ret, rec |-> <<>>, log |-> r.log])
        /\ displayed' = conversation_history(chat_history)
        /\ UNCHANGED <<groq_api_key, now, chat_history>>

MarketOverview(g) ==
    \E r \in {web_search_agent(groq_api_key, MarketOverviewQuery, g)} :
        /\ last' = LastUI("market_overview", "", MarketOverviewQuery, NoText,
                          [raised |-> r.raised, ret |-> r.ret, rec |-> <<>>, log |-> r.log])
        /\ displayed' = conversation_history(chat_history)
        /\ UNCHANGED <<groq_api_key, cache, now, chat_history>>

(* the inputs the page-level specifications draw from; the page            *)
(* specification SpecUI follows one session at one clock reading, the      *)
(* clock moves in SpecHistory and SpecAnalyze                              *)
UIInputs == {EmptyStr, <<"S","t","o","c","k">>}
UISymbols == {EmptyStr, NVDA}
UIGroqOutcomes == {g \in GroqOutcomes : g.status = 200 /\ g.body \in {"ok", "nochoices"}}
Elapsed == {0, TickSeconds}

NextUI ==
    \/ /\ Len(chat_history) < MaxHistory
       /\ \E a \in AgentChoices, q \in UIInputs, s \in UISymbols, h \in AgentHist,
             i \in AgentInfo, g \in UIGroqOutcomes :
                ChatSubmit(a, q, s, h, i, g, g)
    \/ ClearChatHistory
    \/ \E s \in UISymbols, a \in {"Complete Analysis"}, h \in AgentHist, i \in AgentInfo,
          g \in UIGroqOutcomes :
            AnalyzeStock(s, a, h, i, 0, h, i, g)
    \/ \E q \in UIInputs, g \in UIGroqOutcomes : SearchWeb(q, g)
    \/ \E n \in DOMAIN topics, g \in UIGroqOutcomes : TrendingTopic(n, g)
    \/ \E s \in popular_stocks \cap {NVDA}, h \in AgentHist, i \in AgentInfo,
          g \in UIGroqOutcomes :
            QuickInsight(s, h, i, g, g)
    \/ \E g \in UIGroqOutcomes : MarketOverview(g)

SpecUI == Init /\ [][NextUI]_vars

(* a long conversation with the web-search agent *)
NextHistory ==
    \/ /\ Len(chat_history) < MaxLongHistory
       /\ \E q \in {EmptyStr, <<"H","i">>} :
            ChatSubmit("Web Search Agent", q, EmptyStr, HistRaise,
                       [raises |-> FALSE, dict |-> FullInfo],
                       GroqOutcome(FALSE, 200, "ok"), GroqOutcome(FALSE, 200, "ok"))
    \/ ClearChatHistory
    \/ Tick

SpecHistory == Init /\ [][NextHistory]_vars

(* presses of Analyze Stock while time passes *)
NextAnalyze ==
    \/ \E s \in {EmptyStr, nvda}, a \in AnalysisTypes, h \in AgentHist, i \in AgentInfo,
          d \in Elapsed, h2 \in AgentHist, g \in UIGroqOutcomes :
            AnalyzeStock(s, a, h, i, d, h2, i, g)
    \/ Tick

SpecAnalyze == Init /\ [][NextAnalyze]_vars

(* ======================================================================= *)
(*                              Properties                                 *)
(* ======================================================================= *)
LiveTag == Txt(<<"Yahoo Finance (Limited)">>)
FallbackTag == Txt(<<"Fallback Data">>)

AgentOps == {"web_search_agent", "finance_agent", "multi_agent_response"}

HasFinanceKeyword(q) == \E k \in finance_keywords : Contains(Lower(q), k)

Calls(log, e) == SelectSeq(log, LAMBDA x : x.e = e)

HasEvent(log, e, outs) == \E i \in DOMAIN log : log[i].e = e /\ log[i].out \in outs

SearchMessages(q) ==
    <<Message("system", WebSystemPrompt),
      Message("user", <<"Search for information about: ">> \o q)>>

(* C1: a multi_agent_response call whose lower-cased query contains a      *)
(* finance keyword and whose symbol is non-empty looks the symbol up       *)
(* through get_stock_data, calls the web-search agent, and returns a       *)
(* document holding both the 'Financial Analysis' and the 'Latest News &   *)
(* Web Search' headers, whatever the external calls answer.                *)
C1_FinanceQueryUsesBothPaths ==
    (last.op = "multi_agent_response" /\ HasFinanceKeyword(last.query) /\ Truthy(last.symbol)) =>
        /\ ~last.raised
        /\ \E i \in DOMAIN last.log :
              last.log[i].e = "get_stock_data" /\ last.log[i].sym = last.symbol
        /\ \E i \in DOMAIN last.log :
              last.log[i].e = "call_groq_api" /\ last.log[i].msgs[1].content = WebSystemPrompt
        /\ Contains(last.ret, FinanceHeader)
        /\ Contains(last.ret, NewsHeader)

C1_Witness ==
    /\ last.op = "multi_agent_response"
    /\ HasFinanceKeyword(last.query)
    /\ last.query # Lower(last.query)
    /\ Truthy(last.symbol)
    /\ HasEvent(last.log, "history", {"raises"})
    /\ HasEvent(last.log, "post", {"missing_key"})

(* C2 (as claimed): without the GROQ_API_KEY every agent operation yields  *)
(* the fixed warning string and makes no network call at all: no           *)
(* chat-completion POST and no request to the market-data provider.        *)
C2_NoKeyNoNetworkCall ==
    (~groq_api_key /\ last.op \in AgentOps) =>
        /\ last.op # "multi_agent_response" => last.ret = KeyWarning
        /\ last.op = "multi_agent_response" => Contains(last.ret, KeyWarning)
        /\ \A i \in DOMAIN last.log : last.log[i].e \notin {"post", "history", "info"}

(* C3: a get_stock_data call for a symbol whose cache entry is younger     *)
(* than 300 s makes no provider call and returns the stored record; every  *)
(* call leaves the record it returned stored for its symbol, and makes at  *)
(* most one history request. So two lookups of one symbol in one window    *)
(* cost at most one provider call.                                         *)
C3_SecondLookupServedFromCache ==
    [][last'.op = "get_stock_data" =>
        LET s == last'.symbol
        IN  /\ (s \in DOMAIN cache /\ now - cache[s].stored < 300) =>
                  /\ ~HasEvent(last'.log, "history", {"raises", "empty", "ok"})
                  /\ ~HasEvent(last'.log, "info", {"raises", "ok"})
                  /\ last'.rec = <<cache[s].value>>
            /\ s \in DOMAIN cache'
            /\ cache'[s].value = last'.rec[1]
            /\ cache'[s].stored <= now'
            /\ now' - cache'[s].stored < 300
            /\ Len(Calls(last'.log, "history")) <= 1]_vars

C3_Witness ==
    /\ last.op = "get_stock_data"
    /\ Len(Calls(last.log, "history")) = 0
    /\ last.symbol \in DOMAIN cache
    /\ cache[last.symbol].stored < now

(* C4 (as claimed): after a lookup that failed and returned the fallback   *)
(* record, the next get_stock_data call for the same ticker calls the      *)
(* provider again.                                                         *)
C4_FailedLookupNotCached ==
    [][(/\ last.op = "get_stock_data"
        /\ Len(Calls(last.log, "history")) = 1
        /\ last.rec[1].data_source = FallbackTag
        /\ last'.op = "get_stock_data"
        /\ last'.symbol = last.symbol) =>
            Len(Calls(last'.log, "history")) = 1]_vars

(* C4 (amended): a failed lookup stores its fallback record in the cache   *)
(* like a live one: a later call for the same ticker within 300 s makes no *)
(* provider call and returns that fallback record; the provider is called  *)
(* again once the entry is older than 300 s.                               *)
C4_FallbackRecordIsCached ==
    [][last'.op = "get_stock_data" =>
        LET s == last'.symbol
        IN  /\ (Len(Calls(last'.log, "history")) = 1 /\ last'.rec[1].data_source = FallbackTag) =>
                  (s \in DOMAIN cache' /\ cache'[s] = [value |-> last'.rec[1], stored |-> now'])
            /\ (/\ s \in DOMAIN cache
                /\ cache[s].value.data_source = FallbackTag
                /\ now - cache[s].stored < 300) =>
                  (Len(Calls(last'.log, "history")) = 0 /\ last'.rec[1] = cache[s].value)
            /\ (/\ s \in DOMAIN cache
                /\ cache[s].value.data_source = FallbackTag
                /\ now - cache[s].stored > 300) =>
                  Len(Calls(last'.log, "history")) = 1]_vars

C4_Witness ==
    /\ last.op = "get_stock_data"
    /\ Len(Calls(last.log, "history")) = 0
    /\ last.rec[1].data_source = FallbackTag
    /\ cache[last.symbol].stored < now

(* C5 (as claimed): get_stock_data returns the fallback record on each of  *)
(* the three failure kinds: empty history, an exception while fetching the *)
(* history, and stock.info raising.                                        *)
C5_AllFailuresFallBack ==
    (/\ last.op = "get_stock_data"
     /\ \/ HasEvent(last.log, "history", {"raises", "empty"})
        \/ HasEvent(last.log, "info", {"raises"})) =>
        last.rec[1].data_source = FallbackTag

(* C5 (amended): get_stock_data returns the fallback record when the       *)
(* history is empty or fetching it raises; when only stock.info raises it  *)
(* returns a live record whose descriptive fields take their defaults      *)
(* ('N/A', and the symbol as company name).                                *)
C5_HistoryFailuresFallBack ==
    last.op = "get_stock_data" =>
        /\ HasEvent(last.log, "history", {"raises", "empty"}) =>
              last.rec[1].data_source = FallbackTag
        /\ HasEvent(last.log, "info", {"raises"}) =>
              /\ last.rec[1].data_source = LiveTag
              /\ last.rec[1].current_price.t = "num"
              /\ last.rec[1].market_cap = NA
              /\ last.rec[1].pe_ratio = NA
              /\ last.rec[1].dividend_yield = NA
              /\ last.rec[1].week52_high = NA
              /\ last.rec[1].week52_low = NA
              /\ last.rec[1].company_name = Txt(last.symbol)
              /\ last.rec[1].sector = NA
              /\ last.rec[1].industry = NA
              /\ last.rec[1].volume = NA

C5_Witness ==
    /\ last.op = "get_stock_data"
    /\ HasEvent(last.log, "info", {"raises"})
    /\ last.rec[1].data_source = LiveTag

(* C6: get_fallback_stock_data never raises; for a symbol whose upper-case *)
(* form is not a key of the fallback table the record carries the name     *)
(* '<symbol> Corporation' and the sector 'Unknown', otherwise the name and *)
(* sector of the table entry of the upper-cased symbol.                    *)
TableKeys ==
    {<<"A","A","P","L">>, <<"G","O","O","G","L">>, <<"M","S","F","T">>,
     <<"N","V","D","A">>, <<"T","S","L","A">>, <<"A","M","Z","N">>}

C6_FallbackNameAndSector ==
    last.op = "get_fallback_stock_data" =>
        /\ ~last.raised
        /\ Len(last.rec) = 1
        /\ IF Upper(last.symbol) \in TableKeys
           THEN /\ last.rec[1].company_name = Txt(fallback_data[Upper(last.symbol)].name)
                /\ last.rec[1].sector = Txt(fallback_data[Upper(last.symbol)].sector)
           ELSE /\ last.rec[1].company_name = Txt(last.symbol \o <<" Corporation">>)
                /\ last.rec[1].sector = Txt(<<"Unknown">>)

C6_Witness ==
    /\ last.op = "get_fallback_stock_data"
    /\ Upper(last.symbol) \notin TableKeys
    /\ last.symbol # Upper(last.symbol)
    /\ last.rec[1].sector = Txt(<<"Unknown">>)

(* C7 (as claimed): a lookup whose history has fewer than two points (zero *)
(* or one) does not raise, takes previous close equal to current price and *)
(* returns a record whose price_change is zero.                            *)
C7_FewerThanTwoPointsZeroChange ==
    (/\ last.op = "get_stock_data"
     /\ \E i \in DOMAIN last.log :
            last.log[i].e = "history" /\ last.log[i].out # "raises" /\ last.log[i].n < 2) =>
        /\ ~last.raised
        /\ last.rec[1].previous_close = last.rec[1].current_price
        /\ last.rec[1].price_change = Num(0)

(* C7 (amended): a lookup whose history has exactly one point does not     *)
(* raise, takes previous close equal to current price and returns a live   *)
(* record whose price_change and price_change_percent are zero; a lookup   *)
(* whose history is empty does not raise either and returns the fallback   *)
(* record, whose price_change is 'N/A'.                                    *)
C7_OnePointZeroChange ==
    last.op = "get_stock_data" =>
        /\ (\E i \in DOMAIN last.log :
                last.log[i].e = "history" /\ last.log[i].out = "ok" /\ last.log[i].n = 1) =>
              /\ ~last.raised
              /\ last.rec[1].data_source = LiveTag
              /\ last.rec[1].current_price.t = "num"
              /\ last.rec[1].previous_close = last.rec[1].current_price
              /\ last.rec[1].price_change = Num(0)
              /\ last.rec[1].price_change_percent = Num(0)
        /\ HasEvent(last.log, "history", {"empty"}) =>
              /\ ~last.raised
              /\ last.rec[1].data_source = FallbackTag
              /\ last.rec[1].price_change = NA

C7_Witness ==
    /\ last.op = "get_stock_data"
    /\ \E i \in DOMAIN last.log :
            last.log[i].e = "history" /\ last.log[i].out = "ok" /\ last.log[i].n = 1
    /\ last.rec[1].price_change = Num(0)

(* C8: every record returned or cached carries data_source 'Yahoo Finance  *)
(* (Limited)' or 'Fallback Data'; a fallback record has current_price,     *)
(* previous_close and market_cap equal to 'API Limited' and a note field;  *)
(* and no operation changes a stored record: while a cache entry keeps its *)
(* store time its record stays the same.                                   *)
WellTagged(r) ==
    /\ r.data_source \in {LiveTag, FallbackTag}
    /\ r.data_source = FallbackTag =>
          /\ r.current_price = APILimited
          /\ r.previous_close = APILimited
          /\ r.market_cap = APILimited
          /\ "note" \in DOMAIN r

C8_RecordsTaggedAndImmutable ==
    /\ [](/\ \A s \in DOMAIN cache : WellTagged(cache[s].value)
          /\ \A i \in DOMAIN last.rec : WellTagged(last.rec[i]))
    /\ [][\A s \in DOMAIN cache :
            (s \in DOMAIN cache' /\ cache'[s].stored = cache[s].stored) =>
                cache'[s].value = cache[s].value]_vars

C8_Witness ==
    /\ last.op = "finance_agent"
    /\ Truthy(last.symbol)
    /\ Len(Calls(last.log, "get_stock_data")) = 1
    /\ Len(Calls(last.log, "history")) = 0
    /\ cache[last.symbol].value.data_source = FallbackTag
    /\ cache[last.symbol].stored < now

(* C9: an agent operation never raises; every POST is the single one of    *)
(* the call_groq_api invocation logged just before it; when the POST fails *)
(* (exception, HTTP error status, body that is not JSON or lacks choices)  *)
(* the result of web_search_agent and finance_agent starts with 'Error     *)
(* calling Groq API: ', and when it succeeds it is the model's text.       *)
C9_OnePostAndErrorString ==
    last.op \in AgentOps =>
        /\ ~last.raised
        /\ \A i \in DOMAIN last.log :
              last.log[i].e = "post" =>
                  /\ i > 1
                  /\ last.log[i - 1].e = "call_groq_api"
                  /\ last.log[i - 1].msgs = last.log[i].msgs
        /\ (/\ last.op # "multi_agent_response"
            /\ HasEvent(last.log, "post", {"post_raises", "http_error", "bad_json", "missing_key"})) =>
              StartsWith(last.ret, GroqErrorPrefix)
        /\ (last.op # "multi_agent_response" /\ HasEvent(last.log, "post", {"ok"})) =>
              last.ret = ModelText
        /\ (/\ last.op = "multi_agent_response"
            /\ HasEvent(last.log, "post", {"post_raises", "http_error", "bad_json", "missing_key"})) =>
              Contains(last.ret, GroqErrorPrefix)

C9_Witness ==
    /\ last.op = "finance_agent"
    /\ HasEvent(last.log, "post", {"missing_key"})
    /\ StartsWith(last.ret, GroqErrorPrefix)

(* C10: a multi_agent_response call whose query has no finance keyword or  *)
(* whose symbol is absent or empty makes exactly one call_groq_api call,   *)
(* the web search for the original query, no market-data lookup, and       *)
(* returns the document headed 'Web Search Results' alone; otherwise it    *)
(* makes exactly one get_stock_data lookup and exactly two call_groq_api   *)
(* calls, the second being the web search for 'latest news and analysis    *)
(* for <symbol>'.                                                          *)
C10_RouterBranches ==
    last.op = "multi_agent_response" =>
        IF HasFinanceKeyword(last.query) /\ Truthy(last.symbol)
        THEN /\ Len(Calls(last.log, "get_stock_data")) = 1
             /\ Len(Calls(last.log, "history")) <= 1
             /\ Len(Calls(last.log, "call_groq_api")) = 2
             /\ Calls(last.log, "call_groq_api")[1].msgs[1].content # WebSystemPrompt
             /\ Calls(last.log, "call_groq_api")[2].msgs =
                    SearchMessages(<<"latest news and analysis for ">> \o last.symbol)
        ELSE /\ Len(Calls(last.log, "call_groq_api")) = 1
             /\ Calls(last.log, "call_groq_api")[1].msgs = SearchMessages(last.query)
             /\ Len(Calls(last.log, "get_stock_data")) = 0
             /\ Len(Calls(last.log, "history")) = 0
             /\ Len(Calls(last.log, "info")) = 0
             /\ SubSeq(last.ret, 1, 1) = WebHeader
             /\ ~Contains(last.ret, FinanceHeader)
             /\ ~Contains(last.ret, NewsHeader)

C10_Witness ==
    /\ last.op = "multi_agent_response"
    /\ HasFinanceKeyword(last.query)
    /\ ~Truthy(last.symbol)
    /\ Len(Calls(last.log, "call_groq_api")) = 1
    /\ SubSeq(last.ret, 1, 1) = WebHeader

(* the markdown table finance_agent builds from the record *)
stock_info(stock_data, symbol) ==
    IF stock_data.data_source = Txt(<<"Fallback Data">>)
    THEN FallbackStockInfo(stock_data, symbol)
    ELSE LiveStockInfo(stock_data, symbol)

(* what call_groq_api returns, read off the events it logged *)
CompletionResult(calls) ==
    IF Len(Calls(calls, "post")) = 0 THEN KeyWarning
    ELSE Only({CASE post.out = "ok" -> ModelText
                 [] post.out = "post_raises" -> GroqErrorPrefix \o <<"ConnectionError">>
                 [] post.out = "http_error" ->
                        GroqErrorPrefix \o <<ToString(post.n), " Client Error">>
                 [] post.out = "bad_json" ->
                        GroqErrorPrefix \o <<"Expecting value: line 1 column 1 (char 0)">>
                 [] OTHER -> GroqErrorPrefix \o <<"'choices'">> :
                    post \in {Calls(calls, "post")[1]}})

(* C12 (as claimed): every finance_agent call with a symbol, the record    *)
(* being live or fallback, makes one chat-completion call whose user       *)
(* message embeds the markdown table built from the record, and returns    *)
(* exactly the string that call returned.                                  *)
C12_TableEmbeddedInPrompt ==
    (last.op = "finance_agent" /\ Truthy(last.symbol)) =>
        /\ last.symbol \in DOMAIN cache
        /\ Len(Calls(last.log, "call_groq_api")) = 1
        /\ Contains(Calls(last.log, "call_groq_api")[1].msgs[2].content,
                    stock_info(cache[last.symbol].value, last.symbol))
        /\ last.ret = CompletionResult(last.log)

(* C17: no record returned by get_stock_data or get_fallback_stock_data,   *)
(* and so no record in the cache, has the key 'error'; every finance_agent *)
(* call, with or without a symbol and whatever the provider answered,      *)
(* makes exactly one call_groq_api invocation, after the lookup if there   *)
(* is one, and returns that invocation's result.                           *)
C17_NoErrorKeyOneCompletion ==
    /\ \A s \in DOMAIN cache : "error" \notin DOMAIN cache[s].value
    /\ \A i \in DOMAIN last.rec : "error" \notin DOMAIN last.rec[i]
    /\ last.op = "finance_agent" =>
          /\ ~last.raised
          /\ Len(Calls(last.log, "call_groq_api")) = 1
          /\ \A i \in DOMAIN last.log :
                last.log[i].e \in {"get_stock_data", "history", "info"} =>
                    \E j \in DOMAIN last.log : j > i /\ last.log[j].e = "call_groq_api"
          /\ last.ret = CompletionResult(last.log)

C17_Witness ==
    /\ last.op = "finance_agent"
    /\ Truthy(last.symbol)
    /\ last.symbol \in DOMAIN cache
    /\ cache[last.symbol].value.data_source = FallbackTag
    /\ HasEvent(last.log, "history", {"raises"})
    /\ Len(Calls(last.log, "call_groq_api")) = 1
    /\ last.ret = ModelText

(* C15: a get_stock_data call for a symbol whose cache entry was stored    *)
(* more than 300 s earlier calls the provider again, returns the record of *)
(* that new call and stores it with the time of the call; an entry younger *)
(* than 300 s is always served, without a provider call, and no operation  *)
(* removes or changes the entry of another symbol.                         *)
C15_ExpiredEntryIsRefetched ==
    [][/\ \A k \in DOMAIN cache :
            k \in DOMAIN cache' /\ (k # last'.symbol => cache'[k] = cache[k])
       /\ last'.op = "get_stock_data" =>
            LET s == last'.symbol
            IN  /\ (s \in DOMAIN cache /\ now - cache[s].stored > 300) =>
                      /\ Len(Calls(last'.log, "history")) = 1
                      /\ HasEvent(last'.log, "history", {"ok"}) =>
                            last'.rec[1].data_source = LiveTag
                      /\ HasEvent(last'.log, "history", {"raises", "empty"}) =>
                            last'.rec[1].data_source = FallbackTag
                      /\ s \in DOMAIN cache'
                      /\ cache'[s] = [value |-> last'.rec[1], stored |-> now']
                /\ (s \in DOMAIN cache /\ now - cache[s].stored < 300) =>
                      /\ Len(Calls(last'.log, "history")) = 0
                      /\ last'.rec = <<cache[s].value>>
                      /\ cache' = cache]_vars

C15_Witness ==
    /\ last.op = "get_stock_data"
    /\ HasEvent(last.log, "get_stock_data", {"expired"})
    /\ HasEvent(last.log, "history", {"ok"})
    /\ last.rec[1].data_source = LiveTag
    /\ cache[last.symbol].stored = now
    /\ now > 300

(* C18 (as claimed): a lookup of a symbol that has no cache entry of its   *)
(* own calls the provider, even when a symbol differing only in letter     *)
(* case has a fresh entry; the record keeps the symbol as typed; and two   *)
(* cached fallback records whose symbols differ only in letter case have   *)
(* the same company name and sector.                                       *)
C18_CaseVariantsShareNameAndSector ==
    [][last'.op = "get_stock_data" =>
        LET s == last'.symbol
        IN  /\ s \notin DOMAIN cache => Len(Calls(last'.log, "history")) = 1
            /\ s \in DOMAIN cache'
            /\ cache'[s].value.symbol = Txt(s)
            /\ last'.rec = <<cache'[s].value>>
            /\ \A a, b \in DOMAIN cache' :
                  (/\ Upper(a) = Upper(b)
                   /\ cache'[a].value.data_source = FallbackTag
                   /\ cache'[b].value.data_source = FallbackTag) =>
                      /\ cache'[a].value.company_name = cache'[b].value.company_name
                      /\ cache'[a].value.sector = cache'[b].value.sector]_vars

(* C18 (amended): as above, except that the company name is shared only    *)
(* when the upper-cased symbol is a key of the fallback table; outside the *)
(* table the sector is 'Unknown' for both and each name is the placeholder *)
(* '<symbol> Corporation' with the symbol as typed.                        *)
C18_CaseVariantsSeparateEntries ==
    [][last'.op = "get_stock_data" =>
        LET s == last'.symbol
        IN  /\ s \notin DOMAIN cache => Len(Calls(last'.log, "history")) = 1
            /\ s \in DOMAIN cache'
            /\ cache'[s].value.symbol = Txt(s)
            /\ last'.rec = <<cache'[s].value>>
            /\ \A a, b \in DOMAIN cache' :
                  (/\ Upper(a) = Upper(b)
                   /\ cache'[a].value.data_source = FallbackTag
                   /\ cache'[b].value.data_source = FallbackTag) =>
                      /\ cache'[a].value.sector = cache'[b].value.sector
                      /\ IF Upper(a) \in TableKeys
                         THEN cache'[a].value.company_name = cache'[b].value.company_name
                         ELSE cache'[a].value.company_name =
                                  Txt(a \o <<" Corporation">>)]_vars

C18_Witness ==
    /\ last.op = "get_stock_data"
    /\ last.symbol = nvda
    /\ HasEvent(last.log, "history", {"raises"})
    /\ NVDA \in DOMAIN cache
    /\ nvda \in DOMAIN cache
    /\ cache[NVDA].value.data_source = FallbackTag
    /\ cache[nvda].value.data_source = FallbackTag
    /\ cache[NVDA].value.company_name = cache[nvda].value.company_name
    /\ cache[NVDA].value.symbol # cache[nvda].value.symbol
    /\ ZZ \in DOMAIN cache
    /\ zz \in DOMAIN cache
    /\ cache[ZZ].value.company_name # cache[zz].value.company_name

(* C11 (as claimed): whenever the history holds more than 5 entries, the   *)
(* conversation history rendered on the page is exactly its last 5         *)
(* entries, oldest of them first, the stored list keeping all of them.     *)
C11_LastFiveDisplayed ==
    Len(chat_history) > 5 =>
        /\ Len(displayed) = 5
        /\ displayed = display_chat_history(chat_history)
        /\ \A i \in 1..5 : displayed[i] = chat_history[Len(chat_history) - 5 + i]

(* C11 (amended): the conversation history rendered by streamlit.py is    *)
(* the whole stored list, every entry in insertion order, also when it     *)
(* holds more than 5 entries; nothing is cut for display.                  *)
C11_AllEntriesDisplayed ==
    /\ Len(displayed) = Len(chat_history)
    /\ \A i \in DOMAIN chat_history : displayed[i] = chat_history[i]
    /\ Len(chat_history) > 5 => displayed # display_chat_history(chat_history)

C11_Witness ==
    /\ last.op = "chat_submit"
    /\ Len(chat_history) = 6
    /\ Len(displayed) = 6
    /\ displayed[1] = chat_history[1]
    /\ chat_history[6][3] # chat_history[1][3]

(* the names of the logged events, in the order they happened *)
EventNames(log) == [i \in DOMAIN log |-> log[i].e]

FinanceBranchOrders ==
    {<<"get_stock_data">> \o lookup \o finance \o news \o <<"chat_history.append">> :
        lookup \in {<<>>, <<"history">>, <<"history", "info">>},
        finance \in {<<"call_groq_api">>, <<"call_groq_api", "post">>},
        news \in {<<"call_groq_api">>, <<"call_groq_api", "post">>}}

(* C13: the steps of one chat submission form one sequence, each finished  *)
(* before the next starts: in the finance branch of multi_agent_response   *)
(* the market-data lookup (with its provider requests, if the cache does   *)
(* not answer) comes first, then the finance chat-completion call with its *)
(* POST, then the news-search call with its POST, and the history entry is *)
(* appended after all of them; in every submission the append is the last  *)
(* step and happens once.                                                  *)
C13_CallsInSequence ==
    (last.op = "chat_submit" /\ Truthy(last.query)) =>
        /\ Len(last.log) > 0
        /\ last.log[Len(last.log)].e = "chat_history.append"
        /\ Len(Calls(last.log, "chat_history.append")) = 1
        /\ (/\ last.agent = "Multi-Agent System"
            /\ HasFinanceKeyword(last.query)
            /\ Truthy(last.symbol)) =>
              /\ EventNames(last.log) \in FinanceBranchOrders
              /\ Calls(last.log, "call_groq_api")[1].msgs[1].content # WebSystemPrompt
              /\ Calls(last.log, "call_groq_api")[2].msgs =
                    SearchMessages(<<"latest news and analysis for ">> \o last.symbol)
              /\ \A i \in DOMAIN last.log :
                    last.log[i].e = "post" => last.log[i].msgs = last.log[i - 1].msgs

C13_Witness ==
    /\ last.op = "chat_submit"
    /\ last.agent = "Multi-Agent System"
    /\ EventNames(last.log) =
          <<"get_stock_data", "history", "info", "call_groq_api", "post",
            "call_groq_api", "post", "chat_history.append">>
    /\ Len(chat_history) = 2

PageOps == {"analyze_stock", "search_web", "trending_topic", "quick_insight",
            "market_overview"}

(* C14: a chat submission with non-empty input appends exactly one entry   *)
(* (user text, response, timestamp, selected agent) at the end of the      *)
(* history, also when the response is an error string; a submission with   *)
(* empty input appends nothing and calls no agent; Clear Chat History      *)
(* empties the list; Analyze Stock, Search Web, the trending-topic, quick- *)
(* insight and market-overview buttons leave it unchanged; the history     *)
(* starts empty. So the history is, in order, the non-empty submissions    *)
(* since the last clear.                                                   *)
C14_HistoryIsSubmissionsSinceClear ==
    [][/\ last'.op = "chat_submit" =>
            /\ last'.agent \in AgentChoices
            /\ IF Len(last'.query) > 0
               THEN /\ chat_history' =
                          Append(chat_history,
                                 <<last'.query, last'.ret, strftime(now'), last'.agent>>)
                    /\ Len(Calls(last'.log, "call_groq_api")) >= 1
               ELSE /\ chat_history' = chat_history
                    /\ last'.log = <<>>
       /\ last'.op = "clear_chat_history" => chat_history' = <<>>
       /\ last'.op \in PageOps => chat_history' = chat_history
       /\ last'.op \notin PageOps \cup {"chat_submit", "clear_chat_history"} =>
            chat_history' = chat_history
       /\ last.op = "init" => chat_history = <<>>]_vars

C14_Witness ==
    /\ last.op \in PageOps
    /\ Len(chat_history) = 2
    /\ StartsWith(chat_history[1][2], GroqErrorPrefix)
    /\ chat_history[1][4] = "Finance Agent"
    /\ chat_history[2][2] = KeyWarning \/ chat_history[2][2] = ModelText
    /\ chat_history[2][4] = "Web Search Agent"

(* C16 (as claimed): one press of Analyze Stock with a non-empty symbol    *)
(* makes at most one history request to the provider over its two          *)
(* get_stock_data invocations, and the record the tab showed is the record *)
(* finance_agent built its prompt from.                                    *)
C16_OneProviderCallSameRecord ==
    (last.op = "analyze_stock" /\ Truthy(last.symbol)) =>
        /\ Len(Calls(last.log, "get_stock_data")) = 2
        /\ Len(Calls(last.log, "history")) <= 1
        /\ Len(last.rec) = 2
        /\ last.rec[1] = last.rec[2]
        /\ last.rec[1].data_source = last.rec[2].data_source

====
